---- MODULE Spec2Model ----
(***************************************************************************)
(* Model of the Slack output adapter (SlackOutput, SlackBase).             *)
(*                                                                         *)
(* One unit of work travels invoke -> send_message.  In the specifications *)
(* below send_message is one atomic action (one framework thread drives    *)
(* the adapter), and the platform (the Slack client) answers each call     *)
(* with success or with an exception, chosen by the environment.           *)
(*                                                                         *)
(* Python values:  None is the string "None"; a flag (stream,              *)
(* first_streamed_chunk, last_streamed_chunk, completed) is modelled by    *)
(* its truth value; a message handle ("ts" of a posted message) is a       *)
(* string and None stands for "no ts key in the entry"; a string of text   *)
(* is a sequence of tokens.                                                *)
(***************************************************************************)
EXTENDS Integers, Sequences, FiniteSets, TLC

VARIABLES
    streaming_state,   \* self.streaming_state: uuid -> entry
    now,               \* the wall clock read by datetime.now(), in seconds
    ticks,             \* how many times the clock advanced (bounded)
    nextTs,            \* number of the next message the platform creates
    pc,                \* last step of the pipeline: "init", "invoked", "discarded", "sent"
    data,              \* the unit handed to invoke
    returned,          \* what invoke returned: "None" or "dict"
    previous,          \* the dict invoke returned ("previous:" of send_message)
    discarded,         \* discard_current_message() was called for the unit
    pre,               \* streaming_state when the unit entered invoke
    calls,             \* the platform calls of the unit, in order
    raised,            \* the try block of send_message ended in its except clause
    logged,            \* log.error was called for the unit
    forwarded,         \* super().send_message(message) was called for the unit
    chunkSeq,          \* the run of consecutive stream chunks first, middle, last seen so far
    hist,              \* per stream-id, what its chunks did so far: opened a message, closed it
    registered,        \* register_action_handlers() was called
    fbAction,          \* the action id of the last button action dispatched
    fbPostFailed,      \* the HTTP POST of the last feedback handler failed
    fbEvents,          \* what the last feedback handler did, in order
    fbRaised,          \* the last feedback handler raised to its caller
    fbLogged,          \* the last feedback handler logged an error
    fix_formatting,    \* self.fix_formatting: the config correct_markdown_formatting
    blocks,            \* self.blocks: the blocks passed with the next message call
    preBlocks,         \* self.blocks when the unit entered invoke
    objs,              \* the entry dicts made so far, in the order they were made
    smap,              \* self.streaming_state as references: uuid -> number of a dict
    tpc,               \* per thread, where it stands in send_message
    tunit,             \* per thread, the locals of its run of send_message
    tref,              \* per thread, its local streaming_state (number of a dict, 0 for None)
    tts,               \* per thread, its local ts (line 202)
    fed,               \* how many chunks of the stream were handed to a thread
    tcalls             \* the platform calls all threads issued, in order

vars == <<streaming_state, now, ticks, nextTs, pc, data, returned, previous,
          discarded, pre, calls, raised, logged, forwarded, chunkSeq, hist,
          registered, fbAction, fbPostFailed, fbEvents, fbRaised, fbLogged,
          fix_formatting, blocks, preBlocks,
          objs, smap, tpc, tunit, tref, tts, fed, tcalls>>

outVars == <<streaming_state, nextTs, pc, data, returned, previous,
             discarded, pre, calls, raised, logged, forwarded, chunkSeq, hist,
             fix_formatting, blocks, preBlocks>>

fbVars == <<registered, fbAction, fbPostFailed, fbEvents, fbRaised, fbLogged>>

thVars == <<objs, smap, tpc, tunit, tref, tts, fed, tcalls>>

None == "None"

(***************************************************************************)
(* Bounds of the model.                                                    *)
(***************************************************************************)
MaxTicks == 2        \* clock advances per behaviour
MaxPosts == 3        \* messages the platform creates before the model stops sending
MaxChunks == 3       \* chunks of the stream handed to the threads

Age == 60            \* age_out_streaming_state(self, age=60)

TickDeltas == {1, 60}

Uuids == {None, "u1"}
NoChannels == {None, ""}
ThreadRefs == {"th1"}
AckRefs == {None, "ack1"}

(***************************************************************************)
(* Text.  A list item is a string (a token sequence, <<>> the empty        *)
(* string) or something that is no string.                                 *)
(***************************************************************************)
Str(s) == [isstr |-> TRUE, s |-> s]
NonStr == [isstr |-> FALSE, s |-> <<>>]

TextNone == [kind |-> "none", val |-> <<>>]
TextStr(s) == [kind |-> "str", val |-> Str(s)]
TextList(l) == [kind |-> "list", val |-> l]

File(name, ok) == [name |-> name, b64ok |-> ok]

UnitsOf(channels, acks, texts, files, streams, firsts, lasts, uuids) ==
    [ message_info : [channel : channels, ts : ThreadRefs, ack_msg_ts : acks],
      content : [text : texts, files : files, stream : streams,
                 first_streamed_chunk : firsts, last_streamed_chunk : lasts,
                 uuid : uuids] ]

\* units without a channel
NoChannelUnits ==
    UnitsOf(NoChannels, AckRefs, {TextStr(<<"a">>)}, {<<>>},
            BOOLEAN, {FALSE}, {FALSE}, {"u1"})

\* units of text: every streaming mode for the stream-id "u1", and units
\* that carry no stream-id (plain messages and chunks without flags)
StreamTexts ==
    { TextStr(<<"a">>),
      TextList(<<Str(<<>>), NonStr>>) }

StreamUnits ==
    UnitsOf({"C1"}, {None}, StreamTexts, {<<>>}, BOOLEAN, BOOLEAN, BOOLEAN, {"u1"})
        \cup UnitsOf({"C1"}, {None}, {TextStr(<<"a">>)}, {<<>>}, BOOLEAN, {FALSE},
                     {FALSE}, {None})
        \cup NoChannelUnits

\* units with attachments and an acknowledgment placeholder, for one stream-id
DeliveryTexts ==
    { TextNone,
      TextStr(<<"a">>),
      TextList(<<Str(<<"a">>), Str(<<"b">>)>>) }

DeliveryFiles ==
    { <<>>,
      <<File("f1", TRUE), File("f2", TRUE)>>,
      <<File("f1", FALSE)>> }

DeliveryUnits ==
    UnitsOf({"C1"}, AckRefs, DeliveryTexts, DeliveryFiles, BOOLEAN, BOOLEAN, BOOLEAN,
            {"u1"})
        \cup NoChannelUnits

\* units of one stream-id whose text holds markdown and tables
MarkdownTexts ==
    { TextStr(<<"a">>),
      TextStr(<<"[l](http://x)", "FENCEpy\n", "**b**">>),
      TextStr(<<"a", "|small|">>),
      TextStr(<<"|small|", "a", "|jira|">>),
      TextStr(<<"|large|">>),
      TextStr(<<"a", "|short|">>),
      TextList(<<Str(<<"a">>), Str(<<"b">>)>>) }

MarkdownUnits ==
    UnitsOf({"C1"}, {None}, MarkdownTexts, {<<>>}, BOOLEAN, {FALSE}, BOOLEAN, {"u1"})

NoUnit ==
    [ message_info |-> [channel |-> None, ts |-> None, ack_msg_ts |-> None],
      content |-> [text |-> TextNone, files |-> <<>>, stream |-> FALSE,
                   first_streamed_chunk |-> FALSE, last_streamed_chunk |-> FALSE,
                   uuid |-> None] ]

NoPrevious ==
    [ channel |-> None, text |-> TextNone, files |-> <<>>, thread_ts |-> None,
      ack_msg_ts |-> None, stream |-> FALSE, first_streamed_chunk |-> FALSE,
      last_streamed_chunk |-> FALSE, uuid |-> None ]

(***************************************************************************)
(* The platform.  The n-th message it creates gets the handle Handle(n).   *)
(***************************************************************************)
HandleNames == <<"ts1", "ts2", "ts3", "ts4", "ts5", "ts6", "ts7", "ts8", "ts9">>
Handle(n) == HandleNames[n]

Call(op, channel, ts, text, thread_ts, blks, filename, unfurl, ok) ==
    [ op |-> op, channel |-> channel, ts |-> ts, text |-> text,
      thread_ts |-> thread_ts, blocks |-> blks, filename |-> filename,
      unfurl_links |-> unfurl, ok |-> ok ]

(***************************************************************************)
(* The stream-state map.                                                   *)
(***************************************************************************)
NewState(t) == [create_time |-> t, ts |-> None, completed |-> FALSE]

\* get_streaming_state(uuid) is truthy: the map has an entry for uuid (an entry
\* is a dict with a create_time, never an empty one)
HasState(ss, uuid) == uuid \in DOMAIN ss

ExpiredStrict(state, t) == t - state.create_time >= Age

Expired(state, t) == t - state.create_time > Age

age_out_streaming_state(ss, t) ==
    [u \in {v \in DOMAIN ss : ~Expired(ss[v], t)} |-> ss[u]]

add_streaming_state(ss, uuid, t) ==
    age_out_streaming_state(
        [u \in DOMAIN ss \cup {uuid} |-> IF u = uuid THEN NewState(t) ELSE ss[u]], t)

(***************************************************************************)
(* invoke                                                                  *)
(***************************************************************************)
NoChannelNoneOnly(channel) == channel = None

\* "if not channel": None and the empty string
NoChannel(channel) == channel = None \/ channel = ""

InvokeResult(d) ==
    [ channel |-> d.message_info.channel,
      text |-> d.content.text,
      files |-> d.content.files,
      thread_ts |-> d.message_info.ts,
      ack_msg_ts |-> d.message_info.ack_msg_ts,
      stream |-> d.content.stream,
      first_streamed_chunk |-> d.content.first_streamed_chunk,
      last_streamed_chunk |-> d.content.last_streamed_chunk,
      uuid |-> d.content.uuid ]

\* message.get_data("previous:<key>"): the value under key of the dict invoke
\* returned, None when the dict has no such key
GetData(prev, key) == IF key \in DOMAIN prev THEN prev[key] ELSE None

(***************************************************************************)
(* Markdown.  A text is a sequence of tokens; a token is a piece of plain  *)
(* text, a piece of markdown that one of the substitutions of fix_markdown *)
(* rewrites, or a whole region that the pattern of convert_markdown_tables *)
(* matches: a header line, a separator line and one or more data lines.    *)
(* FENCE stands for the three backquotes of a code fence.                  *)
(***************************************************************************)
SmallTableRows == 5  \* "if num_rows <= 5"

\* line 260: [text](http...) becomes <http...|text>
FixLink(tok) == IF tok = "[l](http://x)" THEN "<http://x|l>" ELSE tok

\* line 262: the language after an opening code fence is dropped
FixFence(tok) == IF tok = "FENCEpy\n" THEN "FENCE" ELSE tok

\* line 264: **text** becomes *text*
FixBold(tok) == IF tok = "**b**" THEN "*b*" ELSE tok

Substituted(message) ==
    [i \in 1..Len(message) |-> FixBold(FixFence(FixLink(message[i])))]

\* the regions the pattern of line 326 matches
Tables == {"|small|", "|jira|", "|large|", "|short|"}

HeaderNameQty == <<"Name", "Qty">>
Separator2 == <<"---", "---">>

\* lines 301-303: the rows of a matched region, each the cells between its
\* bars ("" a cell of blanks only)
TableRows(match) ==
    CASE match = "|small|" ->
            << HeaderNameQty, Separator2, <<"x", "1">>, <<"y", "2">> >>
      [] match = "|jira|" ->
            << <<"Jira Key", "Summary", "Link">>, <<"---", "---", "---">>,
               <<"K-1", "fix it", "http://u">> >>
      [] match = "|large|" ->
            << HeaderNameQty, Separator2, <<"r1", "1">>, <<"r2", "2">>,
               <<"r3", "3">>, <<"r4", "4">>, <<"r5", "5">>, <<"r6", "6">> >>
      [] match = "|short|" ->
            << HeaderNameQty, Separator2, <<"r1", "1">>, <<"r2", "2">>,
               <<"r3", "">>, <<"r4", "4">>, <<"r5", "5">>, <<"r6", "6">> >>

\* "[cell.strip() for cell in row if cell.strip()]"
NonEmptyCells(row) == SelectSeq(row, LAMBDA cell : cell # "")

\* line 333: re.sub(r'http\S+', '', cell)
StripUrl(cell) == IF cell = "http://u" THEN "" ELSE cell

\* lines 332-334
FilteredRow(row) ==
    [i \in 1..Len(NonEmptyCells(row)) |-> StripUrl(NonEmptyCells(row)[i])]

\* line 344: "jira" in header.lower() and "key" in header.lower()
IsJiraKeyHeader(header) == header \in {"Jira Key"}

\* line 350: "summary" in header.lower()
IsSummaryHeader(header) == header \in {"Summary"}

\* the lines of a segment
BoldLine(cell) == [kind |-> "bold", header |-> "", cell |-> cell]
LinkLine(key, summary) == [kind |-> "link", header |-> key, cell |-> summary]
PairLine(header, cell) == [kind |-> "pair", header |-> header, cell |-> cell]

\* lines 340-357: the lines made of one data row, index from 0
RECURSIVE FormatRow(_, _, _, _, _)
FormatRow(headers, row, index, jira_key, acc) ==
    IF index >= Len(headers) \/ index >= Len(row)
    THEN acc
    ELSE LET header == headers[index + 1]
             cell == row[index + 1]
         IN  IF index = 0 /\ IsJiraKeyHeader(header)
             THEN FormatRow(headers, row, index + 1, cell, acc)
             ELSE LET first == IF index = 0 THEN Append(acc, BoldLine(cell)) ELSE acc
                      line == IF /\ index = 1 /\ jira_key # ""
                                 /\ IsSummaryHeader(header)
                              THEN Append(first, LinkLine(jira_key, cell))
                              ELSE IF index # 0
                                   THEN Append(first, PairLine(header, cell))
                                   ELSE first
                  IN  FormatRow(headers, row, index + 1, jira_key, line)

\* lines 359-365
SectionBlock(lines) ==
    [type |-> "section", text |-> [type |-> "mrkdwn", text |-> lines]]

\* lines 329-367: one section block for each data row
convert_small_table(rows, headers) ==
    LET filtered_rows == [i \in 1..Len(rows) |-> FilteredRow(rows[i])]
        data_rows == SubSeq(filtered_rows, 3, Len(filtered_rows))
    IN  [i \in 1..Len(data_rows) |->
            SectionBlock(FormatRow(filtered_rows[1], data_rows[i], 0, "", <<>>))]

\* pt.get_string(): the table drawn in a fixed-width font
PrettyString(match) ==
    CASE match = "|large|" -> "+large+"
      [] match = "|short|" -> "+short+"
      [] OTHER -> "+table+"

\* PrettyTable.add_row raises when the row has not one value for each field
AddRowRaises(headers, row) == Len(NonEmptyCells(row)) # Len(headers)

\* lines 300-321: what replaces a matched region, with self.blocks after it
markdown_to_fixed_width(match, blks) ==
    LET rows == TableRows(match)
        headers == NonEmptyCells(rows[1])
        num_rows == Len(rows) - 2
    IN  IF num_rows <= SmallTableRows
        THEN [text |-> <<>>, blocks |-> convert_small_table(rows, headers),
              raised |-> FALSE]
        ELSE IF \E i \in 3..Len(rows) : AddRowRaises(headers, rows[i])
        THEN [text |-> <<>>, blocks |-> blks, raised |-> TRUE]
        ELSE [text |-> <<"\nFENCE\n", PrettyString(match), "\nFENCE\n">>,
              blocks |-> blks, raised |-> FALSE]

\* line 327: re.sub over the message, from token k on; acc is what came of the
\* tokens before
RECURSIVE ConvertFrom(_, _, _)
ConvertFrom(message, k, acc) ==
    IF acc.raised \/ k > Len(message)
    THEN acc
    ELSE IF message[k] \in Tables
    THEN LET r == markdown_to_fixed_width(message[k], acc.blocks)
         IN  ConvertFrom(message, k + 1,
                         [text |-> acc.text \o r.text, blocks |-> r.blocks,
                          raised |-> r.raised])
    ELSE ConvertFrom(message, k + 1, [acc EXCEPT !.text = Append(@, message[k])])

\* lines 297-327
convert_markdown_tables(message, blks) ==
    ConvertFrom(message, 1, [text |-> <<>>, blocks |-> blks, raised |-> FALSE])

\* lines 256-269: self.blocks is emptied first
fix_markdown(message) == convert_markdown_tables(Substituted(message), <<>>)

(***************************************************************************)
(* send_message.  A frame F is the state of one run of send_message:       *)
(*   ss      the stream-state map                                          *)
(*   calls   the platform calls made so far                                *)
(*   nextTs  the platform's message counter                                *)
(*   raised  an exception left the try block                               *)
(*   blocks  self.blocks                                                   *)
(*   fix     self.fix_formatting                                           *)
(* and starts from the adapter object self.                                *)
(* fails is the set of call numbers (1 = the first platform call of the    *)
(* unit) that the platform answers with an exception.                      *)
(***************************************************************************)
Adapter(ss, blks, fix) == [streaming_state |-> ss, blocks |-> blks, fix_formatting |-> fix]

Frame(self, n) ==
    [ ss |-> self.streaming_state, calls |-> <<>>, nextTs |-> n, raised |-> FALSE,
      blocks |-> self.blocks, fix |-> self.fix_formatting ]

CallFails(F, fails) == (Len(F.calls) + 1) \in fails

\* lines 163-167
Messages(text) ==
    IF text.kind # "list"
    THEN IF text.kind # "none" THEN <<text.val>> ELSE <<>>
    ELSE text.val

\* line 172: "if not text or not isinstance(text, str): continue"
Skipped(item) == ~item.isstr \/ item.s = <<>>

\* lines 186-187
Outgoing(item, index) == IF index # 0 THEN <<"\n">> \o item.s ELSE item.s

\* the sweep run on every lookup as well, not only when an entry is made
EntryMapSweeping(ss, m, t) ==
    IF m.first_streamed_chunk
    THEN add_streaming_state(ss, m.uuid, t)
    ELSE IF HasState(age_out_streaming_state(ss, t), m.uuid)
         THEN age_out_streaming_state(ss, t)
         ELSE add_streaming_state(ss, m.uuid, t)

\* the entry made anew for every chunk, as if every chunk were a first one
EntryMapAlwaysNew(ss, m, t) == add_streaming_state(ss, m.uuid, t)

\* lines 189-194: the map once the entry of the unit is there
EntryMap(ss, m, t) ==
    IF m.first_streamed_chunk
    THEN add_streaming_state(ss, m.uuid, t)
    ELSE IF HasState(ss, m.uuid) THEN ss ELSE add_streaming_state(ss, m.uuid, t)

\* chat_postMessage(channel, text, thread_ts, blocks, unfurl_links=False)
PostCall(F, m, text, fails) ==
    Call("create", m.channel,
         IF CallFails(F, fails) THEN None ELSE Handle(F.nextTs),
         text, m.thread_ts, F.blocks, None, "False", ~CallFails(F, fails))

\* chat_update(channel, ts, text, blocks, unfurl_links=False)
UpdateCall(F, m, ts, text, fails) ==
    Call("update", m.channel, ts, text, None, F.blocks, None, "False",
         ~CallFails(F, fails))

\* lines 204-211: the update, any exception of it passed over
UpdateRaising(F, m, ss, text, fails) ==
    [F EXCEPT !.ss = ss,
              !.calls = Append(@, UpdateCall(F, m, ss[m.uuid].ts, text, fails)),
              !.raised = CallFails(F, fails)]

UpdateMessage(F, m, ss, text, fails) ==
    [F EXCEPT !.ss = ss,
              !.calls = Append(@, UpdateCall(F, m, ss[m.uuid].ts, text, fails))]

\* lines 213-216: the create of a stream; the handle is stored when it returns
CreateStreamMessage(F, m, ss, text, fails) ==
    IF CallFails(F, fails)
    THEN [F EXCEPT !.ss = ss,
                   !.calls = Append(@, PostCall(F, m, text, fails)),
                   !.raised = TRUE]
    ELSE [F EXCEPT !.ss = [ss EXCEPT ![m.uuid].ts = Handle(F.nextTs)],
                   !.calls = Append(@, PostCall(F, m, text, fails)),
                   !.nextTs = @ + 1]

\* the stream branch without the check of "completed"
StreamItemNoDrop(F, m, ss, text, fails) ==
    LET ss2 == [ss EXCEPT ![m.uuid].completed = m.last_streamed_chunk]
    IN  IF ss2[m.uuid].ts # None
        THEN UpdateMessage(F, m, ss2, text, fails)
        ELSE CreateStreamMessage(F, m, ss2, text, fails)

\* the stream branch without the check of the handle: every chunk creates
StreamItemAlwaysCreate(F, m, ss, text, fails) ==
    IF ss[m.uuid].completed
    THEN [F EXCEPT !.ss = ss]
    ELSE CreateStreamMessage(
             F, m, [ss EXCEPT ![m.uuid].completed = m.last_streamed_chunk], text, fails)

\* lines 196-216
StreamItem(F, m, ss, text, fails) ==
    IF ss[m.uuid].completed
    THEN [F EXCEPT !.ss = ss]
    ELSE LET ss2 == [ss EXCEPT ![m.uuid].completed = m.last_streamed_chunk]
         IN  IF ss2[m.uuid].ts # None
             THEN UpdateMessage(F, m, ss2, text, fails)
             ELSE CreateStreamMessage(F, m, ss2, text, fails)

\* the branch as it stood in lines 230-235: an entry with a handle is updated
NonStreamItemUpdating(F, m, ss, text, fails) ==
    LET ss2 == [ss EXCEPT ![m.uuid].completed = TRUE]
    IN  IF ss[m.uuid].ts = None
        THEN [F EXCEPT !.ss = ss2,
                       !.calls = Append(@, PostCall(F, m, text, fails)),
                       !.nextTs = IF CallFails(F, fails) THEN @ ELSE @ + 1,
                       !.raised = CallFails(F, fails)]
        ELSE [F EXCEPT !.ss = ss2,
                       !.calls = Append(@, UpdateCall(F, m, ss[m.uuid].ts, text, fails)),
                       !.raised = CallFails(F, fails)]

\* lines 218-229
NonStreamItem(F, m, ss, text, fails) ==
    LET ss2 == [ss EXCEPT ![m.uuid].completed = TRUE]
    IN  IF ss[m.uuid].ts = None
        THEN [F EXCEPT !.ss = ss2,
                       !.calls = Append(@, PostCall(F, m, text, fails)),
                       !.nextTs = IF CallFails(F, fails) THEN @ ELSE @ + 1,
                       !.raised = CallFails(F, fails)]
        ELSE [F EXCEPT !.ss = ss2]

\* lines 175-176: the text of the item as corrected, with self.blocks after it
Corrected(F, item) ==
    IF F.fix
    THEN fix_markdown(item.s)
    ELSE [text |-> item.s, blocks |-> F.blocks, raised |-> FALSE]

\* lines 178-184: on a last chunk the tables of the text are converted once
\* more; the text that comes back is thrown away, self.blocks is kept
Tabled(F, m, item) ==
    LET fixed == Corrected(F, item)
    IN  IF fixed.raised \/ ~m.last_streamed_chunk
        THEN fixed
        ELSE [convert_markdown_tables(fixed.text, fixed.blocks)
                  EXCEPT !.text = fixed.text]

\* the text of the items up to the one at index, each after the first on a
\* line of its own
RECURSIVE AccumulatedText(_, _, _)
AccumulatedText(F, m, index) ==
    LET item == Messages(m.text)[index + 1]
        text == IF Skipped(item) THEN <<>> ELSE Outgoing(Str(Tabled(F, m, item).text), index)
    IN  IF index = 0 THEN text ELSE AccumulatedText(F, m, index - 1) \o text

\* one round of the loop that sends the text accumulated so far
TextItemAccumulating(F, m, index, t, fails) ==
    LET item == Messages(m.text)[index + 1]
        tabled == Tabled(F, m, item)
        G == [F EXCEPT !.blocks = tabled.blocks]
        text == AccumulatedText(F, m, index)
    IN  IF Skipped(item)
        THEN F
        ELSE IF tabled.raised
        THEN [G EXCEPT !.raised = TRUE]
        ELSE IF m.stream
             THEN StreamItem(G, m, EntryMap(G.ss, m, t), text, fails)
             ELSE NonStreamItem(G, m, EntryMap(G.ss, m, t), text, fails)

\* lines 171-229: one round of the loop over the text items, index from 0
TextItem(F, m, index, t, fails) ==
    LET item == Messages(m.text)[index + 1]
        tabled == Tabled(F, m, item)
        G == [F EXCEPT !.blocks = tabled.blocks]
        text == Outgoing(Str(tabled.text), index)
    IN  IF Skipped(item)
        THEN F
        ELSE IF tabled.raised
        THEN [G EXCEPT !.raised = TRUE]
        ELSE IF m.stream
             THEN StreamItem(G, m, EntryMap(G.ss, m, t), text, fails)
             ELSE NonStreamItem(G, m, EntryMap(G.ss, m, t), text, fails)

RECURSIVE TextLoop(_, _, _, _, _)
TextLoop(F, m, index, t, fails) ==
    IF F.raised \/ index >= Len(Messages(m.text))
    THEN F
    ELSE TextLoop(TextItem(F, m, index, t, fails), m, index + 1, t, fails)

\* files_upload_v2(channel, file, thread_ts, filename)
UploadCall(F, m, file, fails) ==
    Call("upload", m.channel, None, <<>>, m.thread_ts, <<>>, file.name, "unset",
         ~CallFails(F, fails))

\* one attachment, with a failure of its upload passed over
FileItemContinuing(F, m, file, fails) ==
    IF ~file.b64ok
    THEN [F EXCEPT !.raised = TRUE]
    ELSE [F EXCEPT !.calls = Append(@, UploadCall(F, m, file, fails))]

\* lines 237-244: one attachment; base64.b64decode raises on content that is
\* no base64 text
FileItem(F, m, file, fails) ==
    IF ~file.b64ok
    THEN [F EXCEPT !.raised = TRUE]
    ELSE [F EXCEPT !.calls = Append(@, UploadCall(F, m, file, fails)),
                   !.raised = CallFails(F, fails)]

RECURSIVE FileLoop(_, _, _, _)
FileLoop(F, m, k, fails) ==
    IF F.raised \/ k > Len(m.files)
    THEN F
    ELSE FileLoop(FileItem(F, m, m.files[k], fails), m, k + 1, fails)

\* lines 152-246: the try block
TryBlockContinuing(self, n, m, t, fails) ==
    LET T == TextLoop(Frame(self, n), m, 0, t, fails)
    IN  FileLoop([T EXCEPT !.raised = FALSE], m, 1, fails)

TryBlock(self, n, m, t, fails) ==
    FileLoop(TextLoop(Frame(self, n), m, 0, t, fails), m, 1, fails)

\* chat_delete(channel, ts=ack_msg_ts)
DeleteCall(F, m, fails) ==
    Call("delete", m.channel, m.ack_msg_ts, <<>>, None, <<>>, None, "unset",
         ~CallFails(F, fails))

\* lines 250-254: the placeholder is deleted, an exception of it passed over
DeleteAckUnlessRaised(F, m, fails) ==
    IF m.ack_msg_ts # None /\ ~F.raised
    THEN [F EXCEPT !.calls = Append(@, DeleteCall(F, m, fails))]
    ELSE F

DeleteAck(F, m, fails) ==
    IF m.ack_msg_ts # None
    THEN [F EXCEPT !.calls = Append(@, DeleteCall(F, m, fails))]
    ELSE F

\* the most platform calls send_message can make for the unit: one for each
\* text item, one for each attachment, one for the placeholder
PotentialCalls(m) ==
    Len(Messages(m.text)) + Len(m.files) + (IF m.ack_msg_ts # None THEN 1 ELSE 0)

\* lines 153-161: the locals of send_message, read from the dict of invoke
Locals(prev) ==
    [ channel |-> GetData(prev, "channel"),
      text |-> GetData(prev, "text"),
      stream |-> GetData(prev, "stream"),
      files |-> GetData(prev, "files"),
      thread_ts |-> GetData(prev, "ts"),
      ack_msg_ts |-> GetData(prev, "ack_msg_ts"),
      first_streamed_chunk |-> GetData(prev, "first_streamed_chunk"),
      last_streamed_chunk |-> GetData(prev, "last_streamed_chunk"),
      uuid |-> GetData(prev, "uuid") ]

\* lines 151-254: the whole of send_message on the unit prev
SendResult(self, n, prev, t, fails) ==
    DeleteAck(TryBlock(self, n, Locals(prev), t, fails), Locals(prev), fails)

(***************************************************************************)
(* The run of consecutive stream chunks [first, middle, last] of one       *)
(* stream-id, each with one non-empty text and every platform call         *)
(* succeeding: chunkSeq holds, for each chunk of the run processed so far, *)
(* the create-message and update-message calls it issued.                  *)
(***************************************************************************)
NonEmptyItems(m) == {i \in 1..Len(Messages(m.text)) : ~Skipped(Messages(m.text)[i])}

OneText(m) == Cardinality(NonEmptyItems(m)) = 1

AllOk(cs) == \A i \in 1..Len(cs) : cs[i].ok

IsMsgCall(c) == c.op \in {"create", "update"}

MsgCalls(cs) == SelectSeq(cs, IsMsgCall)

ChunkNext(seq, m, cs) ==
    LET e == [uuid |-> m.uuid, calls |-> MsgCalls(cs)]
        good == m.stream /\ OneText(m) /\ AllOk(cs)
    IN  IF good /\ m.first_streamed_chunk /\ ~m.last_streamed_chunk
        THEN <<e>>
        ELSE IF /\ good /\ ~m.first_streamed_chunk /\ ~m.last_streamed_chunk
                /\ Len(seq) = 1 /\ seq[1].uuid = m.uuid
        THEN Append(seq, e)
        ELSE IF /\ good /\ ~m.first_streamed_chunk /\ m.last_streamed_chunk
                /\ Len(seq) = 2 /\ seq[1].uuid = m.uuid
        THEN Append(seq, e)
        ELSE <<>>

(***************************************************************************)
(* What the chunks of a stream-id did so far.  A streaming unit with text  *)
(* that is not the last chunk and whose create-message call returned a     *)
(* handle opens the stream on that handle; a streaming unit with text and  *)
(* last-chunk set closes it; a non-streaming unit with text ends the       *)
(* record of the stream-id.                                                *)
(***************************************************************************)
NoHist == [phase |-> "none", ts |-> None]

IsCreated(c) == c.op = "create" /\ c.ok

Created(cs) == SelectSeq(cs, IsCreated)

HistNext(h, m, cs) ==
    IF NonEmptyItems(m) = {}
    THEN h
    ELSE IF ~m.stream
    THEN [h EXCEPT ![m.uuid] = NoHist]
    ELSE IF m.last_streamed_chunk
    THEN [h EXCEPT ![m.uuid] = [phase |-> "closed", ts |-> None]]
    ELSE IF Created(cs) # <<>>
    THEN [h EXCEPT ![m.uuid] =
             [phase |-> "open", ts |-> Created(cs)[Len(Created(cs))].ts]]
    ELSE IF m.first_streamed_chunk
    THEN [h EXCEPT ![m.uuid] = NoHist]
    ELSE h

(***************************************************************************)
(* The feedback buttons (SlackBase).  The body of a button action carries  *)
(* the user, the channel, the message and the value attached to the        *)
(* button, a JSON text.  A JSON text is a token sequence.                  *)
(***************************************************************************)
FeedbackPostUrl == "http://feedback"
FeedbackPostHeaders == "headers"

JsonObject(k, v) == <<"{", k, ":", v, "}">>

ButtonValues == {JsonObject("id", "m1"), JsonObject("id", "m2")}

Bodies ==
    [ user : {"U1", "U2"}, channel : {"C1", "C2"}, message : {"msg1"},
      value : ButtonValues ]

\* json.loads: the object of a JSON text, an exception when the text is none
JsonLoads(t) ==
    IF Len(t) = 5 /\ t[1] = "{" /\ t[3] = ":" /\ t[5] = "}"
    THEN [ok |-> TRUE, obj |-> [key |-> t[2], val |-> t[4]]]
    ELSE [ok |-> FALSE, obj |-> [key |-> None, val |-> None]]

\* json.dumps of rest_body: the keys in the order of the dict, "data" the object
\* of the button value
JsonDumps(b) ==
    <<"{", "user", ":", b.user, ",", "feedback", ":", b.feedback, ",",
      "interface", ":", b.interface, ",", "interface_data", ":", "{", "channel",
      ":", b.interface_data.channel, "}", ",", "message", ":", b.message, ",",
      "data", ":">> \o JsonObject(b.data.key, b.data.val) \o <<"}">>

RestBody(body, value_object, feedback) ==
    [ user |-> body.user,
      feedback |-> feedback,
      interface |-> "slack",
      interface_data |-> [channel |-> body.channel],
      message |-> body.message,
      data |-> value_object ]

AckEvent == [op |-> "ack", url |-> None, headers |-> None, data |-> <<>>]

SayEvent(body) ==
    [op |-> "say", url |-> None, headers |-> None,
     data |-> <<"Thanks for the feedback, <@", body.user, ">!">>]

PostEvent(body, value_object, feedback) ==
    [op |-> "post", url |-> FeedbackPostUrl, headers |-> FeedbackPostHeaders,
     data |-> JsonDumps(RestBody(body, value_object, feedback))]

\* the feedback handler with the POST outside any try: its failure is raised
FeedbackRaising(body, feedback, postFails) ==
    LET v == JsonLoads(body.value)
    IN  IF ~v.ok
        THEN [events |-> <<AckEvent>>, raised |-> TRUE, logged |-> FALSE]
        ELSE [events |-> <<AckEvent, SayEvent(body), PostEvent(body, v.obj, feedback)>>,
              raised |-> postFails, logged |-> FALSE]

\* feedback(ack, body, say, feedback): lines 54-79
FeedbackResult(body, feedback, postFails) ==
    LET v == JsonLoads(body.value)
    IN  IF ~v.ok
        THEN [events |-> <<AckEvent>>, raised |-> TRUE, logged |-> FALSE]
        ELSE [events |-> <<AckEvent, SayEvent(body), PostEvent(body, v.obj, feedback)>>,
              raised |-> FALSE, logged |-> postFails]

\* the threads of the host that run send_message
Threads == {1, 2}

NoRef == 0

\* the i-th chunk of the stream: the first one is flagged first-chunk
Chunk(i, last) ==
    [ message_info |-> [channel |-> "C1", ts |-> "th1", ack_msg_ts |-> None],
      content |-> [text |-> TextStr(<<"a">>), files |-> <<>>, stream |-> TRUE,
                   first_streamed_chunk |-> (i = 1), last_streamed_chunk |-> last,
                   uuid |-> "u1"] ]

ThreadsIdle ==
    /\ objs = <<>>
    /\ smap = [u \in {} |-> NoRef]
    /\ tpc = [t \in Threads |-> "idle"]
    /\ tunit = [t \in Threads |-> Locals(NoPrevious)]
    /\ tref = [t \in Threads |-> NoRef]
    /\ tts = [t \in Threads |-> None]
    /\ fed = 0
    /\ tcalls = <<>>

(***************************************************************************)
(* Actions                                                                 *)
(***************************************************************************)
Init ==
    /\ streaming_state = [u \in {} |-> NewState(0)]
    /\ now = 0
    /\ ticks = 0
    /\ nextTs = 1
    /\ pc = "init"
    /\ data = NoUnit
    /\ returned = None
    /\ previous = NoPrevious
    /\ discarded = FALSE
    /\ pre = [u \in {} |-> NewState(0)]
    /\ calls = <<>>
    /\ raised = FALSE
    /\ logged = FALSE
    /\ forwarded = FALSE
    /\ chunkSeq = <<>>
    /\ hist = [u \in Uuids |-> NoHist]
    /\ registered = FALSE
    /\ fbAction = None
    /\ fbPostFailed = FALSE
    /\ fbEvents = <<>>
    /\ fbRaised = FALSE
    /\ fbLogged = FALSE
    /\ fix_formatting = TRUE
    /\ blocks = <<>>
    /\ preBlocks = <<>>
    /\ ThreadsIdle

\* time passes
Tick ==
    /\ ticks < MaxTicks
    /\ \E d \in TickDeltas : now' = now + d
    /\ ticks' = ticks + 1
    /\ UNCHANGED <<outVars, fbVars, thVars>>

\* invoke(message, data): lines 122-149, on a unit of the set U
Invoke(U) ==
    /\ pc # "invoked"
    /\ \E d \in U :
        /\ data' = d
        /\ IF NoChannel(d.message_info.channel)
           THEN /\ logged' = TRUE
                /\ discarded' = TRUE
                /\ returned' = None
                /\ previous' = NoPrevious
                /\ pc' = "discarded"
           ELSE /\ logged' = FALSE
                /\ discarded' = FALSE
                /\ returned' = "dict"
                /\ previous' = InvokeResult(d)
                /\ pc' = "invoked"
    /\ pre' = streaming_state
    /\ preBlocks' = blocks
    /\ calls' = <<>>
    /\ raised' = FALSE
    /\ forwarded' = FALSE
    /\ UNCHANGED <<streaming_state, now, ticks, nextTs, chunkSeq, hist, fbVars,
                   fix_formatting, blocks, thVars>>

\* send_message(message): lines 151-254, run by the framework on the dict that
\* invoke returned (a unit for which invoke returned None never gets here)
SendMessage ==
    /\ pc = "invoked"
    /\ nextTs <= MaxPosts
    /\ \E fails \in SUBSET (1..PotentialCalls(Locals(previous))) :
        LET R == SendResult(Adapter(streaming_state, blocks, fix_formatting), nextTs,
                            previous, now, fails)
        IN  /\ streaming_state' = R.ss
            /\ blocks' = R.blocks
            /\ nextTs' = R.nextTs
            /\ calls' = R.calls
            /\ raised' = R.raised
            /\ logged' = R.raised
            /\ chunkSeq' = ChunkNext(chunkSeq, Locals(previous), R.calls)
            /\ hist' = HistNext(hist, Locals(previous), R.calls)
    /\ forwarded' = TRUE
    /\ pc' = "sent"
    /\ UNCHANGED <<now, ticks, data, returned, previous, discarded, pre, fbVars,
                   fix_formatting, preBlocks, thVars>>

\* register_action_handlers(): lines 45-52
RegisterActionHandlers ==
    /\ ~registered
    /\ registered' = TRUE
    /\ UNCHANGED <<now, ticks, outVars, fbAction, fbPostFailed, fbEvents, fbRaised,
                   fbLogged, thVars>>

\* the SDK dispatches a button action to the handler registered for its id
Feedback(action_id, feedback) ==
    /\ registered
    /\ fbAction' = action_id
    /\ \E body \in Bodies, postFails \in BOOLEAN :
        LET R == FeedbackResult(body, feedback, postFails)
        IN  /\ fbPostFailed' = postFails
            /\ fbEvents' = R.events
            /\ fbRaised' = R.raised
            /\ fbLogged' = R.logged
    /\ UNCHANGED <<now, ticks, outVars, registered, thVars>>

\* handle_thumbs_up: lines 46-48
HandleThumbsUp == Feedback("thumbs_up_action", "thumbs_up")

\* handle_thumbs_down: lines 50-52
HandleThumbsDown == Feedback("thumbs_down_action", "thumbs_down")

InvokeStream == Invoke(StreamUnits)

InvokeDelivery == Invoke(DeliveryUnits)

\* the adapter fed with units of text of every streaming mode, while time passes
Next == Tick \/ InvokeStream \/ SendMessage

Spec == Init /\ [][Next]_vars

\* the adapter fed with units that carry attachments and placeholders
NextDelivery == InvokeDelivery \/ SendMessage

SpecDelivery == Init /\ [][NextDelivery]_vars

\* the adapter as constructed with either value of correct_markdown_formatting
InitMarkdown ==
    \E fix \in BOOLEAN :
        /\ fix_formatting = fix
        /\ streaming_state = [u \in {} |-> NewState(0)]
        /\ now = 0 /\ ticks = 0 /\ nextTs = 1 /\ pc = "init"
        /\ data = NoUnit /\ returned = None /\ previous = NoPrevious
        /\ discarded = FALSE /\ pre = [u \in {} |-> NewState(0)]
        /\ calls = <<>> /\ raised = FALSE /\ logged = FALSE /\ forwarded = FALSE
        /\ chunkSeq = <<>> /\ hist = [u \in Uuids |-> NoHist]
        /\ registered = FALSE /\ fbAction = None /\ fbPostFailed = FALSE
        /\ fbEvents = <<>> /\ fbRaised = FALSE /\ fbLogged = FALSE
        /\ blocks = <<>> /\ preBlocks = <<>>
        /\ ThreadsIdle

InvokeMarkdown == Invoke(MarkdownUnits)

\* the adapter fed with units whose text holds markdown and tables
NextMarkdown == InvokeMarkdown \/ SendMessage

SpecMarkdown == InitMarkdown /\ [][NextMarkdown]_vars

(***************************************************************************)
(* send_message run by several threads of the host on one adapter, for the *)
(* chunks of one stream, each with one text.  Nothing in the source locks  *)
(* self.streaming_state: a step of a thread is one read or write of the    *)
(* map or of an entry dict, or one half of a platform call (the request,   *)
(* the response).  The entry dicts are objects: the map and the locals of  *)
(* the threads hold references to them.                                    *)
(***************************************************************************)
\* the map as values: what each stream-id's dict holds
Entries(os, sm) == [u \in DOMAIN sm |-> os[sm[u]]]

seqVars == <<now, ticks, pc, data, returned, previous, discarded, pre, calls, raised,
             logged, forwarded, chunkSeq, hist, fbVars, fix_formatting, blocks,
             preBlocks>>

\* invoke and lines 151-187: a thread takes the next chunk of the stream
ThStart(t) ==
    /\ tpc[t] = "idle"
    /\ fed < MaxChunks
    /\ \E last \in BOOLEAN :
          tunit' = [tunit EXCEPT ![t] = Locals(InvokeResult(Chunk(fed + 1, last)))]
    /\ fed' = fed + 1
    /\ tref' = [tref EXCEPT ![t] = NoRef]
    /\ tts' = [tts EXCEPT ![t] = None]
    /\ tpc' = [tpc EXCEPT ![t] = IF fed = 0 THEN "add" ELSE "lookup"]
    /\ UNCHANGED <<streaming_state, nextTs, objs, smap, tcalls, seqVars>>

\* lines 192-193, 271-272: get_streaming_state(uuid)
ThLookup(t) ==
    /\ tpc[t] = "lookup"
    /\ IF tunit[t].uuid \in DOMAIN smap
       THEN /\ tref' = [tref EXCEPT ![t] = smap[tunit[t].uuid]]
            /\ tpc' = [tpc EXCEPT ![t] = "test"]
       ELSE /\ tref' = [tref EXCEPT ![t] = NoRef]
            /\ tpc' = [tpc EXCEPT ![t] = "add"]
    /\ UNCHANGED <<streaming_state, nextTs, objs, smap, tunit, tts, fed, tcalls, seqVars>>

\* lines 190, 194, 274-280: add_streaming_state(uuid) makes a dict, stores it
\* under uuid in place of the one that was there, and sweeps
ThAdd(t) ==
    /\ tpc[t] = "add"
    /\ LET os == Append(objs, NewState(now))
           stored == [u \in DOMAIN smap \cup {tunit[t].uuid} |->
                         IF u = tunit[t].uuid THEN Len(os) ELSE smap[u]]
           swept == [u \in {v \in DOMAIN stored : ~Expired(os[stored[v]], now)} |->
                        stored[u]]
       IN  /\ objs' = os
           /\ smap' = swept
           /\ tref' = [tref EXCEPT ![t] = Len(os)]
           /\ streaming_state' = Entries(os, swept)
    /\ tpc' = [tpc EXCEPT ![t] = "test"]
    /\ UNCHANGED <<nextTs, tunit, tts, fed, tcalls, seqVars>>

\* lines 197-199: a chunk that finds its dict completed is dropped
ThTest(t) ==
    /\ tpc[t] = "test"
    /\ tpc' = [tpc EXCEPT ![t] = IF objs[tref[t]].completed THEN "idle" ELSE "mark"]
    /\ UNCHANGED <<streaming_state, nextTs, objs, smap, tunit, tref, tts, fed, tcalls,
                   seqVars>>

\* lines 201-202: completed is written, the handle is read
ThMark(t) ==
    /\ tpc[t] = "mark"
    /\ objs' = [objs EXCEPT ![tref[t]].completed = tunit[t].last_streamed_chunk]
    /\ tts' = [tts EXCEPT ![t] = objs[tref[t]].ts]
    /\ streaming_state' = Entries(objs', smap)
    /\ tpc' = [tpc EXCEPT ![t] = "call"]
    /\ UNCHANGED <<nextTs, smap, tunit, tref, fed, tcalls, seqVars>>

ThreadCall(t, op, ts) ==
    [op |-> op, thread |-> t, channel |-> tunit[t].channel, ts |-> ts,
     last |-> tunit[t].last_streamed_chunk, returned |-> FALSE, ok |-> FALSE]

\* lines 203-205 and 213: the request of chat_update or chat_postMessage
ThCall(t) ==
    /\ tpc[t] = "call"
    /\ tcalls' = Append(tcalls, IF tts[t] # None
                                THEN ThreadCall(t, "update", tts[t])
                                ELSE ThreadCall(t, "create", None))
    /\ tpc' = [tpc EXCEPT ![t] = "wait"]
    /\ UNCHANGED <<streaming_state, nextTs, objs, smap, tunit, tref, tts, fed, seqVars>>

\* the call of thread t that has not returned
Pending(t) == CHOOSE i \in 1..Len(tcalls) : tcalls[i].thread = t /\ ~tcalls[i].returned

\* lines 206-211 and 213-216: the call returns or raises; the handle that
\* chat_postMessage returned is written to the dict the thread holds
ThReturn(t) ==
    /\ tpc[t] = "wait"
    /\ nextTs <= MaxPosts
    /\ \E ok \in BOOLEAN :
        LET i == Pending(t)
            created == ok /\ tcalls[i].op = "create"
        IN  /\ tcalls' = [tcalls EXCEPT ![i].returned = TRUE, ![i].ok = ok,
                                        ![i].ts = IF created THEN Handle(nextTs) ELSE @]
            /\ objs' = IF created
                       THEN [objs EXCEPT ![tref[t]].ts = Handle(nextTs)]
                       ELSE objs
            /\ nextTs' = IF created THEN nextTs + 1 ELSE nextTs
    /\ streaming_state' = Entries(objs', smap)
    /\ tpc' = [tpc EXCEPT ![t] = "idle"]
    /\ UNCHANGED <<smap, tunit, tref, tts, fed, seqVars>>

ThreadStep(t) ==
    \/ ThStart(t) \/ ThLookup(t) \/ ThAdd(t) \/ ThTest(t)
    \/ ThMark(t) \/ ThCall(t) \/ ThReturn(t)

\* the chunks of one stream worked on by the threads of the host
NextThreads == \E t \in Threads : ThreadStep(t)

SpecThreads == Init /\ [][NextThreads]_vars

\* the feedback buttons pressed by users, while time passes
NextFeedback == Tick \/ RegisterActionHandlers \/ HandleThumbsUp \/ HandleThumbsDown

SpecFeedback == Init /\ [][NextFeedback]_vars

(***************************************************************************)
(* Properties                                                              *)
(***************************************************************************)
\* the unit that send_message last worked on, as send_message sees it
m == Locals(previous)

Sent == pc = "sent"

CallsOf(op) == SelectSeq(calls, LAMBDA c : c.op = op)

IsUpdateOf(c, h) == c.op = "update" /\ c.ts = h

\* C1: over a run of chunks [first, middle, last] of one stream-id, each with one
\* non-empty text and every platform call succeeding, the first chunk issues
\* exactly one create-message call and no update, and each later chunk issues
\* exactly one update-message call, on the handle that create-message returned,
\* and no create.
StreamSequenceOneCreate ==
    /\ Len(chunkSeq) >= 1 =>
          /\ Len(chunkSeq[1].calls) = 1
          /\ chunkSeq[1].calls[1].op = "create"
          /\ chunkSeq[1].calls[1].ts # None
    /\ \A k \in 2..Len(chunkSeq) :
          /\ Len(chunkSeq[k].calls) = 1
          /\ IsUpdateOf(chunkSeq[k].calls[1], chunkSeq[1].calls[1].ts)

StreamSequenceSeen == Len(chunkSeq) = 3

\* C2 as claimed: once a last chunk was processed for a stream-id, every
\* streaming unit processed later for it issues no create-message and no
\* update-message call and leaves its entry as it was.
DroppedForeverAfterLastChunk ==
    [][ (pc = "invoked" /\ pc' = "sent" /\ m.stream /\ hist[m.uuid].phase = "closed")
        => /\ MsgCalls(calls') = <<>>
           /\ m.uuid \in DOMAIN streaming_state <=> m.uuid \in DOMAIN streaming_state'
           /\ m.uuid \in DOMAIN streaming_state =>
                 streaming_state'[m.uuid] = streaming_state[m.uuid] ]_vars

\* C2, amended: while the entry of a stream-id is in the map and completed, every
\* streaming unit for it that is not flagged first-chunk is dropped: no
\* create-message, no update-message, and the map is left as it was.
DroppedWhileCompleted ==
    (/\ Sent /\ m.stream /\ ~m.first_streamed_chunk
     /\ m.uuid \in DOMAIN pre /\ pre[m.uuid].completed)
        => MsgCalls(calls) = <<>> /\ streaming_state = pre

ChunkDropped ==
    /\ Sent /\ m.stream /\ ~m.first_streamed_chunk
    /\ m.uuid \in DOMAIN pre /\ pre[m.uuid].completed
    /\ NonEmptyItems(m) # {}
    /\ hist[m.uuid].phase = "closed"

\* C3 as claimed: a non-streaming unit with a channel and one non-empty text
\* issues exactly one create-message call, with unfurl disabled, and no
\* update-message call, whatever the stream-state map holds, and its entry is
\* completed afterwards.
NonStreamAlwaysCreates ==
    (Sent /\ ~m.stream /\ OneText(m))
        => /\ Len(CallsOf("create")) = 1
           /\ CallsOf("create")[1].unfurl_links = "False"
           /\ CallsOf("update") = <<>>
           /\ m.uuid \in DOMAIN streaming_state
           /\ streaming_state[m.uuid].completed

\* the entry the unit finds has a handle, and the unit is not flagged first-chunk
FindsHandle ==
    ~m.first_streamed_chunk /\ m.uuid \in DOMAIN pre /\ pre[m.uuid].ts # None

\* C3, amended: a non-streaming unit with a channel and one non-empty text
\* issues exactly one create-message call, with unfurl disabled, unless the entry
\* it finds for its stream-id has a handle, and then it issues none; in both
\* cases it issues no update-message call and its entry is completed afterwards.
NonStreamCreatesUnlessHandle ==
    (Sent /\ ~m.stream /\ OneText(m))
        => /\ IF FindsHandle
              THEN CallsOf("create") = <<>>
              ELSE /\ Len(CallsOf("create")) = 1
                   /\ CallsOf("create")[1].unfurl_links = "False"
           /\ CallsOf("update") = <<>>
           /\ m.uuid \in DOMAIN streaming_state
           /\ streaming_state[m.uuid].completed

NonStreamAfterStream ==
    /\ Sent /\ ~m.stream /\ OneText(m) /\ FindsHandle
    /\ calls = <<>>
    /\ streaming_state[m.uuid].completed

\* C4: a unit without a channel (None or the empty string) is discarded by
\* invoke: invoke returns None, discard_current_message is called, send_message
\* is not run on it, so no platform call is issued for it, and the stream-state
\* map stays as it was.
NoChannelDiscarded ==
    (pc # "init" /\ data.message_info.channel \in NoChannels)
        => /\ pc = "discarded"
           /\ returned = None
           /\ discarded
           /\ calls = <<>>
           /\ ~forwarded
           /\ streaming_state = pre

EmptyChannelDiscarded ==
    /\ pc = "discarded"
    /\ data.message_info.channel = ""
    /\ data.message_info.ack_msg_ts # None
    /\ DOMAIN streaming_state # {}

\* C5: for a unit that carries an acknowledgment placeholder reference,
\* send_message issues exactly one delete-message call, for the channel and
\* the placeholder reference of the unit, after every other platform call of
\* the unit, whether the unit streams or not, whether its chunk was dropped,
\* and whether a create-message or upload-file call failed; and send_message
\* returns after it, whether the delete-message call failed or not.
PlaceholderDeletedLast ==
    (Sent /\ m.ack_msg_ts # None)
        => /\ Len(CallsOf("delete")) = 1
           /\ calls[Len(calls)].op = "delete"
           /\ calls[Len(calls)].channel = m.channel
           /\ calls[Len(calls)].ts = m.ack_msg_ts
           /\ forwarded

PlaceholderDeletedAfterFailure ==
    /\ Sent /\ m.ack_msg_ts # None /\ raised
    /\ Len(calls) >= 3
    /\ calls[Len(calls)].op = "delete" /\ ~calls[Len(calls)].ok
    /\ calls[Len(calls) - 1].op = "upload" /\ ~calls[Len(calls) - 1].ok

\* the entry of the unit was made anew by send_message
EntryCreated ==
    /\ NonEmptyItems(m) # {}
    /\ m.first_streamed_chunk \/ m.uuid \notin DOMAIN pre

\* C6: when send_message creates a new entry, at time T, the map afterwards
\* holds the new entry and, of the entries it held before for other stream-ids,
\* exactly those created at T - 60 or later, unchanged, completed or not.
SweepOnCreation ==
    (Sent /\ EntryCreated)
        => /\ m.uuid \in DOMAIN streaming_state
           /\ LET T == streaming_state[m.uuid].create_time
              IN  /\ DOMAIN streaming_state \ {m.uuid} =
                        {u \in DOMAIN pre \ {m.uuid} : T - pre[u].create_time <= Age}
                  /\ \A u \in DOMAIN streaming_state \ {m.uuid} :
                        streaming_state[u] = pre[u]

OpenEntrySwept ==
    /\ Sent /\ EntryCreated
    /\ \E u \in DOMAIN pre \ DOMAIN streaming_state :
          /\ ~pre[u].completed
          /\ streaming_state[m.uuid].create_time - pre[u].create_time = Age + 1

\* the place in calls of the first create-message call that failed, 0 if none
FailedCreates == {i \in 1..Len(calls) : calls[i].op = "create" /\ ~calls[i].ok}

FirstFailedCreate ==
    IF FailedCreates = {} THEN 0
    ELSE CHOOSE i \in FailedCreates : \A j \in FailedCreates : i <= j

\* C7 as claimed: when a create-message call of a unit fails, the failure is
\* logged and the unit is worked on to its end: upload-file is called for each
\* attachment, and each further non-empty text item of a non-streaming unit
\* (whose entry has no handle) is sent.
CreateFailureContinues ==
    (Sent /\ FailedCreates # {})
        => /\ logged
           /\ \A k \in 1..Len(m.files) :
                 \E i \in 1..Len(calls) :
                     calls[i].op = "upload" /\ calls[i].filename = m.files[k].name
           /\ (~m.stream /\ ~FindsHandle) =>
                 \A k \in NonEmptyItems(m) :
                     \E i \in 1..Len(calls) :
                         /\ calls[i].op = "create"
                         /\ calls[i].text = Outgoing(Messages(m.text)[k], k - 1)

\* C7, amended: when a create-message call of a unit fails, the failure is
\* logged and the rest of the try block is given up: no further text item is
\* sent and no attachment is uploaded; send_message goes on with handing the
\* message on and with the deletion of the placeholder.
CreateFailureAborts ==
    (Sent /\ FailedCreates # {})
        => /\ raised
           /\ logged
           /\ forwarded
           /\ Cardinality(FailedCreates) = 1
           /\ \A i \in (FirstFailedCreate + 1)..Len(calls) :
                 /\ calls[i].op = "delete"
                 /\ i = Len(calls)
           /\ m.ack_msg_ts # None => calls[Len(calls)].op = "delete"

CreateFailedBeforeFiles ==
    /\ Sent /\ FirstFailedCreate = 1
    /\ Cardinality(NonEmptyItems(m)) = 2
    /\ Len(m.files) = 2
    /\ Len(calls) = 2
    /\ calls[2].op = "delete"

\* the places in calls of the update-message calls that failed
FailedUpdates == {i \in 1..Len(calls) : calls[i].op = "update" /\ ~calls[i].ok}

\* the calls with every failed update-message call turned into a successful one
WithUpdatesOk(cs) ==
    [i \in 1..Len(cs) |-> IF cs[i].op = "update" THEN [cs[i] EXCEPT !.ok = TRUE] ELSE cs[i]]

\* what send_message does on the unit when its update-message calls succeed and
\* every other call of it is answered as it was
AsIfUpdated ==
    SendResult(Adapter(pre, preBlocks, fix_formatting), nextTs - Len(Created(calls)),
               previous, now,
               {i \in 1..Len(calls) : ~calls[i].ok} \ FailedUpdates)

\* C8: a failure of an update-message call is passed over: send_message ends
\* with the stream-state map, the calls (same calls in the same order, hence no
\* retry and no create-message call in place of the update) and the outcome it
\* has when the update succeeds.
UpdateFailureSwallowed ==
    Sent => /\ streaming_state = AsIfUpdated.ss
            /\ WithUpdatesOk(calls) = AsIfUpdated.calls
            /\ raised = AsIfUpdated.raised
            /\ nextTs = AsIfUpdated.nextTs

UpdateFailedThenWentOn ==
    /\ Sent /\ 1 \in FailedUpdates /\ ~raised
    /\ ~m.last_streamed_chunk
    /\ Len(calls) = 5
    /\ calls[2].op = "update" /\ calls[3].op = "upload" /\ calls[5].op = "delete"
    /\ streaming_state[m.uuid].ts = pre[m.uuid].ts

\* the value of the key "feedback" in the JSON text of a POST
RECURSIVE ValueOfKey(_, _, _)
ValueOfKey(t, key, i) ==
    IF i + 2 > Len(t) THEN None
    ELSE IF t[i] = key /\ t[i + 1] = ":" THEN t[i + 2]
    ELSE ValueOfKey(t, key, i + 1)

ButtonName(action_id) ==
    IF action_id = "thumbs_up_action" THEN "thumbs_up" ELSE "thumbs_down"

PostsOf(es) == SelectSeq(es, LAMBDA e : e.op = "post")

OpenStreamNeverCreatesAgain ==
    [][ (/\ pc = "invoked" /\ pc' = "sent"
         /\ m.stream /\ ~m.first_streamed_chunk /\ NonEmptyItems(m) # {}
         /\ hist[m.uuid].phase = "open")
        => /\ MsgCalls(calls') # <<>>
           /\ \A i \in 1..Len(MsgCalls(calls')) :
                 IsUpdateOf(MsgCalls(calls')[i], hist[m.uuid].ts) ]_vars

\* the entry the unit finds is open and has a handle
FindsOpenHandle == FindsHandle /\ ~pre[m.uuid].completed

\* C10, amended: while the entry of a stream is in the map, open and with a
\* handle, every further streaming chunk of the stream-id (not flagged
\* first-chunk, with text) issues update-message calls on that handle and no
\* create-message call, and the entry keeps the handle, however many units of
\* other stream-ids are processed; the entry is in the map until a new entry is
\* created more than 60 seconds after it was created.
OpenEntryUpdatedInPlace ==
    (Sent /\ m.stream /\ NonEmptyItems(m) # {} /\ FindsOpenHandle)
        => /\ MsgCalls(calls) # <<>>
           /\ \A i \in 1..Len(MsgCalls(calls)) :
                 IsUpdateOf(MsgCalls(calls)[i], pre[m.uuid].ts)
           /\ streaming_state[m.uuid].ts = pre[m.uuid].ts

OpenEntryUpdatedLate ==
    /\ Sent /\ m.stream /\ NonEmptyItems(m) # {} /\ FindsOpenHandle
    /\ now - pre[m.uuid].create_time > Age
    /\ None \in DOMAIN pre
    /\ Len(calls) = 1

\* C16: a unit for which send_message makes no entry (a chunk, not flagged
\* first-chunk, of a stream-id that has an entry, dropped or not, or a unit
\* without non-empty text) leaves the set of stream-ids of the map as it was,
\* so an entry older than the threshold stays for as long as no entry is made.
NoSweepWithoutCreation ==
    (Sent /\ ~EntryCreated) => DOMAIN streaming_state = DOMAIN pre

OldEntryKept ==
    /\ Sent /\ ~EntryCreated /\ NonEmptyItems(m) # {}
    /\ calls # <<>>
    /\ \E u \in DOMAIN streaming_state \ {m.uuid} :
          now - streaming_state[u].create_time > Age

Uploads == CallsOf("upload")

ThreadRefCarried ==
    Sent => \A i \in 1..Len(calls) :
                calls[i].op \in {"create", "upload"} =>
                    calls[i].thread_ts = data.message_info.ts

\* the text of the i-th item of the unit as send_message corrects it
ItemText(i) ==
    IF fix_formatting
    THEN fix_markdown(Messages(m.text)[i].s).text
    ELSE Messages(m.text)[i].s

\* the i-th item as it is sent: on a line of its own when it is not the first
Delta(i) == IF i # 1 THEN <<"\n">> \o ItemText(i) ELSE ItemText(i)

\* the items 1..k of the unit, each after the first prefixed with a newline
RECURSIVE Accumulated(_)
Accumulated(k) == IF k = 1 THEN ItemText(1) ELSE Accumulated(k - 1) \o Delta(k)

Msgs == MsgCalls(calls)

AllItemsNonEmpty == NonEmptyItems(m) = 1..Len(Messages(m.text))

\* C13 as claimed: every update-message call of a stream sends the text
\* accumulated so far; here for a stream that starts with the unit, whose
\* items are then all the text received for it.
UpdateSendsAccumulatedText ==
    (/\ Sent /\ m.stream /\ ~m.last_streamed_chunk /\ m.uuid \notin DOMAIN pre
     /\ AllItemsNonEmpty)
        => \A k \in 1..Len(Msgs) : Msgs[k].op = "update" => Msgs[k].text = Accumulated(k)

\* C13, amended: every create-message and update-message call sends the one
\* text item it is made for, as corrected, prefixed with a newline when the
\* item is not the first of its unit, and nothing of the items before it; a
\* chunk of an open stream makes one call for each of its items.
UpdateSendsItemOnly ==
    Sent =>
        /\ \A k \in 1..Len(Msgs) :
              \E i \in NonEmptyItems(m) : i >= k /\ Msgs[k].text = Delta(i)
        /\ (/\ m.stream /\ ~m.last_streamed_chunk /\ ~raised /\ AllItemsNonEmpty
            /\ ~(m.uuid \in DOMAIN pre /\ pre[m.uuid].completed))
              => /\ Len(Msgs) = Len(Messages(m.text))
                 /\ \A k \in 1..Len(Msgs) : Msgs[k].text = Delta(k)

LaterChunkSentTwoItems ==
    /\ Sent /\ m.stream /\ m.uuid \in DOMAIN pre /\ pre[m.uuid].ts # None
    /\ Len(Msgs) = 2
    /\ Msgs[1].op = "update" /\ Msgs[1].text = <<"a">>
    /\ Msgs[2].op = "update" /\ Msgs[2].text = <<"\n", "b">>

\* the segments of the tables of at most SmallTableRows data rows of a text
SegmentsOf(tok) == convert_small_table(TableRows(tok), NonEmptyCells(TableRows(tok)[1]))

IsSmallTable(tok) == tok \in Tables /\ Len(TableRows(tok)) - 2 <= SmallTableRows

RECURSIVE AllSegments(_)
AllSegments(text) ==
    IF text = <<>>
    THEN <<>>
    ELSE (IF IsSmallTable(Head(text)) THEN SegmentsOf(Head(text)) ELSE <<>>)
            \o AllSegments(Tail(text))

TheItem == Messages(m.text)[CHOOSE i \in NonEmptyItems(m) : TRUE].s

\* C14: the blocks of a create-message or update-message call are segments of
\* the small tables of the text the call is made for, none when it has none;
\* here for a unit with one text item.
BlocksOfTheTextSent ==
    (Sent /\ OneText(m)) =>
        \A k \in 1..Len(Msgs) : \A j \in 1..Len(Msgs[k].blocks) :
            \E i \in 1..Len(AllSegments(TheItem)) :
                Msgs[k].blocks[j] = AllSegments(TheItem)[i]

\* C15: a streaming unit whose last-chunk flag is not set is sent with the
\* tables of its text in place and with no segment of them as blocks; here
\* for a unit with one text item.
NoTableConversionMidStream ==
    (Sent /\ m.stream /\ ~m.last_streamed_chunk /\ OneText(m)) =>
        \A k \in 1..Len(Msgs) :
            /\ \A i \in 1..Len(TheItem) :
                  TheItem[i] \in Tables =>
                      \E j \in 1..Len(Msgs[k].text) : Msgs[k].text[j] = TheItem[i]
            /\ \A j \in 1..Len(Msgs[k].blocks) :
                  \A i \in 1..Len(AllSegments(TheItem)) :
                      Msgs[k].blocks[j] # AllSegments(TheItem)[i]

\* the text with each small table taken out and each other table replaced by
\* one fenced block
RECURSIVE TablesReplaced(_)
TablesReplaced(text) ==
    IF text = <<>>
    THEN <<>>
    ELSE (IF Head(text) \notin Tables
          THEN <<Head(text)>>
          ELSE IF IsSmallTable(Head(text))
          THEN <<>>
          ELSE <<"\nFENCE\n", PrettyString(Head(text)), "\nFENCE\n">>)
            \o TablesReplaced(Tail(text))

\* C19: a text that has been corrected is sent with every small table taken
\* out, every other table replaced by one fenced block, and, as blocks, one
\* segment for each data row of each of its small tables, in table and row
\* order; here for a unit with one text item.
SegmentsOfAllSmallTables ==
    (Sent /\ fix_formatting /\ OneText(m) /\ ~raised) =>
        \A k \in 1..Len(Msgs) :
            /\ Msgs[k].text = TablesReplaced(Substituted(TheItem))
            /\ Msgs[k].blocks = AllSegments(TheItem)

\* C20: the correction of a text raises nothing: with the correction switched
\* on, when no platform call of a unit failed, its try block did not end in the
\* except clause.
NormalisationNeverRaises ==
    (Sent /\ fix_formatting /\ AllOk(calls)) => ~raised

Creates == SelectSeq(tcalls, LAMBDA c : c.op = "create")

AllIdle == \A t \in Threads : tpc[t] = "idle"

\* C11: for the chunks of one stream worked on by two threads at once, as long
\* as no create-message call failed, at most one create-message call is
\* issued, and once the threads are done the entry of the stream holds the
\* handle of the message that call created.
OneCreateForConcurrentChunks ==
    (\A i \in 1..Len(Creates) : Creates[i].returned => Creates[i].ok) =>
        /\ Len(Creates) <= 1
        /\ (AllIdle /\ Len(Creates) = 1) =>
              /\ "u1" \in DOMAIN streaming_state
              /\ streaming_state["u1"].ts = Creates[1].ts

\* C12: while the create-message or update-message call of a last chunk has
\* not been made, or has not returned, the entry the chunk holds is not
\* completed.
CompletedAfterCallReturned ==
    \A t \in Threads :
        (tunit[t].last_streamed_chunk /\ tpc[t] \in {"call", "wait"})
            => ~objs[tref[t]].completed

====
